---- MODULE Spec2Model ----
(***************************************************************************)
(* N-Queens as a binary CSP solved by recursive backtracking search        *)
(* (AIND-Constraint_Satisfaction.ipynb).                                   *)
(*                                                                         *)
(* CSP variables (the sympy symbols A0..A(N-1)) are the column numbers     *)
(* 0..N-1.  A Python dict is a function whose DOMAIN is its key set.  The  *)
(* recursion of backtrack is an explicit stack of frames; the assignment   *)
(* dict is one object shared by all frames and mutated in place.           *)
(***************************************************************************)
EXTENDS Integers, Sequences, FiniteSets, TLC

(* Largest board size drawn by Init of the baseline specification. *)
MaxN == 5

(* Largest board size when the domain iteration order is arbitrary. *)
MaxNPerm == 4

(* Largest board size when inference is an overriding hook. *)
MaxNHook == 4

(* Largest board size when inference forces bindings of unbound variables. *)
MaxNForce == 4

(* Largest board size for the direct applications of is_consistent. *)
MaxNProbe == 3

(* Largest N searched with an inference that proposes bound variables. *)
MaxNRebind == 3

(* Number of nested invocations in which that inference does so. *)
MaxRebindDepth == 2

(* Largest N for which two interleaved invocations are explored. *)
MaxNTwo == 4

(* Largest col_diff and largest row value substituted in the test cell. *)
MaxOffset == 2

MaxRow == 3

(* The test cell's symbols: _x = symbols("x:3"). *)
TestSymbols == 3

(* The driver cell's board size. *)
num_queens == 8

(* Python's None where a variable is expected (select's last line). *)
NoneVar == 0 - 1

VARIABLES
    n,           \* the N handed to NQueensCSP(N)
    pc,          \* driver: "start", "constructed", "searching", "done", "raised", "probe", "probed"
    csp,         \* the NQueensCSP object: size, variables, domains, _constraints
    assignment,  \* the dict created by backtracking_search, shared by every frame
    stack,       \* the active backtrack invocations, root first
    result,      \* value returned by the invocation that returned last: "pending", "None", "assignment"
    raised,      \* the exception that ended the search, "" when none
    ordering,    \* iteration order of the domain set: "natural" or "permuted"
    hook,        \* csp.inference: "baseline", "override" or "forcing"
    probe,       \* arguments and result of a direct is_consistent call
    history,     \* outcomes of the runs of the driver cell that are over
    other        \* a second, suspended backtracking_search invocation on the same csp

vars == <<n, pc, csp, assignment, stack, result, raised, ordering, hook, probe, history, other>>

----------------------------------------------------------------------------
(* Python dicts *)

EmptyDict == <<>>

Keys(d) == DOMAIN d

DictSet(d, k, v) == [x \in (DOMAIN d) \cup {k} |-> IF x = k THEN v ELSE d[x]]

DictDel(d, k) == [x \in (DOMAIN d) \ {k} |-> d[x]]

DictUpdate(d, e) == [x \in (DOMAIN d) \cup (DOMAIN e) |-> IF x \in DOMAIN e THEN e[x] ELSE d[x]]

----------------------------------------------------------------------------
(* Symbolic constraints.  An argument is <<"sym", v>> (a free symbol) or   *)
(* <<"num", k>> (a number substituted for it).                             *)

Sym(v) == <<"sym", v>>

Num(k) == <<"num", k>>

IsNum(a) == a[1] = "num"

(* diffRow written with Eq in place of Ne. *)
diffRow_eq(x0, x1) == x0 = x1

(* diffRow = constraint('diffRow', Ne(X0, X1)) *)
diffRow(x0, x1) == x0 # x1

(* diffDiag that also demands different rows. *)
diffDiag_alsoRows(x0, x1, y) == (x0 # x1) /\ (x0 # x1 + y) /\ (x0 # x1 - y)

(* diffDiag with the second Ne left out. *)
diffDiag_oneSided(x0, x1, y) == x0 # x1 + y

(* diffDiag = constraint('diffDiag', And(Ne(X0, X1 + Y), Ne(X0, X1 - Y))) *)
diffDiag(x0, x1, y) == (x0 # x1 + y) /\ (x0 # x1 - y)

(* expr.subs(bindings): every free symbol that is a key is replaced. *)
subs(c, bindings) ==
    [c EXCEPT !.args = [k \in DOMAIN c.args |->
        IF ~IsNum(c.args[k]) /\ c.args[k][2] \in DOMAIN bindings
        THEN Num(bindings[c.args[k][2]])
        ELSE c.args[k]]]

FullyBound(c) == \A k \in DOMAIN c.args : IsNum(c.args[k])

(* What a constraint instance is after substitution: with every symbol     *)
(* bound it evaluates to its template's truth value; with a symbol still   *)
(* free it stays an unevaluated expression.                                *)
Evaluate(c) ==
    IF ~FullyBound(c) THEN "Expr"
    ELSE IF c.name = "diffRow"
         THEN (IF diffRow(c.args[1][2], c.args[2][2]) THEN "True" ELSE "False")
         ELSE (IF diffDiag(c.args[1][2], c.args[2][2], c.args[3][2]) THEN "True" ELSE "False")

(* Python's `not x`: of the three values only False is false. *)
PyNot(x) == x = "False"

----------------------------------------------------------------------------
(* class NQueensCSP *)

diffRow_constraint(i, j) == [name |-> "diffRow", args |-> <<Sym(i), Sym(j)>>]

diffDiag_constraint(i, j) == [name |-> "diffDiag", args |-> <<Sym(i), Sym(j), Num(j - i)>>]

(* The inner loop visiting only j = i + 1. *)
Pairs_adjacent(N) == {p \in (0 .. N - 1) \X (0 .. N - 1) : p[2] = p[1] + 1}

(* The pairs (i, j) the two nested loops of __init__ visit. *)
Pairs(N) == {p \in (0 .. N - 1) \X (0 .. N - 1) : p[1] < p[2]}

(* __init__ without the update of self._constraints[xj]. *)
NQueensCSP_onlyXi(N) ==
    [size |-> N,
     variables |-> [k \in 1 .. N |-> k - 1],
     domains |-> [v \in 0 .. N - 1 |-> 0 .. N - 1],
     constraints |-> [v \in 0 .. N - 1 |->
         UNION {{diffRow_constraint(p[1], p[2]), diffDiag_constraint(p[1], p[2])} :
                p \in {q \in Pairs(N) : q[1] = v}}]]

NQueensCSP(N) ==
    [size |-> N,
     variables |-> [k \in 1 .. N |-> k - 1],
     domains |-> [v \in 0 .. N - 1 |-> 0 .. N - 1],
     constraints |-> [v \in 0 .. N - 1 |->
         UNION {{diffRow_constraint(p[1], p[2]), diffDiag_constraint(p[1], p[2])} :
                p \in {q \in Pairs(N) : q[1] = v \/ q[2] = v}}]]

(* The constraints property: the union of the index entries. *)
constraints(c) == UNION {c.constraints[v] : v \in DOMAIN c.constraints}

(* constraint.free_symbols *)
free_symbols(k) == {k.args[x][2] : x \in {y \in DOMAIN k.args : ~IsNum(k.args[y])}}

(* len(assignment) == self.size - 1 *)
is_complete_offByOne(c, a) == Cardinality(Keys(a)) = c.size - 1

is_complete(c, a) == Cardinality(Keys(a)) = c.size

(* Only the diffDiag constraints are looked at. *)
is_consistent_diagOnly(c, var, value, a) ==
    \A constraint \in {k \in c.constraints[var] : k.name = "diffDiag"} :
        ~PyNot(Evaluate(subs(subs(constraint, var :> value), a)))

(* Only the diffRow constraints are looked at. *)
is_consistent_rowsOnly(c, var, value, a) ==
    \A constraint \in {k \in c.constraints[var] : k.name = "diffRow"} :
        ~PyNot(Evaluate(subs(subs(constraint, var :> value), a)))

(* `if assignment_constraint != True: return False` *)
is_consistent_strict(c, var, value, a) ==
    \A constraint \in c.constraints[var] :
        Evaluate(subs(subs(constraint, var :> value), a)) = "True"

is_consistent(c, var, value, a) ==
    \A constraint \in c.constraints[var] :
        ~PyNot(Evaluate(subs(subs(constraint, var :> value), a)))

(* The baseline inference: return {}.  None is [isNone |-> TRUE]. *)
NoInference == [isNone |-> FALSE, binds |-> EmptyDict]

NoneInference == [isNone |-> TRUE, binds |-> EmptyDict]

(* What an overriding inference may return: None ("failure") or {}. *)
HookResults(c) == {NoneInference, NoInference}

(* What an inference that derives forced bindings may return: {} or one    *)
(* binding of a variable that is neither var nor bound in the assignment.  *)
ForcedResults(c, var) ==
    {NoInference} \cup
    {[isNone |-> FALSE, binds |-> (u :> w)] :
        u \in (0 .. c.size - 1) \ (Keys(assignment) \cup {var}), w \in 0 .. c.size - 1}

(* What an inference that ignores which variables are bound may return:   *)
(* {} or one binding of var itself or of a variable bound in the           *)
(* assignment.  Called from deeper than MaxRebindDepth invocations it      *)
(* returns {}.                                                             *)
ReboundResults(c, var) ==
    {NoInference} \cup
    {[isNone |-> FALSE, binds |-> (u :> w)] :
        u \in IF Len(stack) <= MaxRebindDepth THEN Keys(assignment) \cup {var} ELSE {},
        w \in 0 .. c.size - 1}

inference(c, var, value) ==
    IF hook = "baseline" THEN {NoInference}
    ELSE IF hook = "override" THEN HookResults(c)
    ELSE IF hook = "rebinding" THEN ReboundResults(c, var)
    ELSE ForcedResults(c, var)

----------------------------------------------------------------------------
(* Search helper functions *)

Min(S) == CHOOSE x \in S : \A y \in S : x <= y

Max(S) == CHOOSE x \in S : \A y \in S : y <= x

(* Last variable of csp.variables that is not a key of the assignment. *)
select_last(c, a) ==
    LET unbound == {k \in DOMAIN c.variables : c.variables[k] \notin Keys(a)}
    IN  IF unbound = {} THEN 0 - 1 ELSE c.variables[Max(unbound)]

(* First variable of csp.variables that is not a key of the assignment. *)
select(c, a) ==
    LET unbound == {k \in DOMAIN c.variables : c.variables[k] \notin Keys(a)}
    IN  IF unbound = {} THEN NoneVar ELSE c.variables[Min(unbound)]

(* The last row left out of the iteration. *)
order_values_dropLast(var, a, c) == c.domains[var] \ {c.size - 1}

order_values(var, a, c) == c.domains[var]

(* The for loop draws the largest value first. *)
Iterate_descending(values, tried) ==
    LET rest == values \ tried
    IN  IF rest = {} THEN {} ELSE {CHOOSE x \in rest : \A y \in rest : y <= x}

(* The values the for loop may draw next from the iterable: a set of small *)
(* integers iterates in ascending order; a permuted order may yield any    *)
(* value not drawn yet.                                                    *)
Iterate(values, tried) ==
    LET rest == values \ tried
    IN  IF rest = {} THEN {}
        ELSE IF ordering = "natural" THEN {Min(rest)} ELSE rest

(* `if result and len(result) > 1:` *)
ResultTruthy_moreThanOne(res, a) == res = "assignment" /\ Cardinality(Keys(a)) > 1

(* `if not result:` *)
ResultTruthy_negated(res, a) == ~(res = "assignment" /\ Keys(a) # {})

(* `if result:` -- None and the empty dict are false. *)
ResultTruthy(res, a) == res = "assignment" /\ Keys(a) # {}

----------------------------------------------------------------------------
(* backtrack as the function it computes with the notebook's own policies  *)
(* (ascending values, inference returning {}): [found, assignment], found  *)
(* FALSE standing for None.                                                *)

RECURSIVE backtrack(_, _), backtrack_loop(_, _, _, _)

backtrack(a, c) ==
    IF is_complete(c, a) THEN [found |-> TRUE, assignment |-> a]
    ELSE backtrack_loop(a, c, select(c, a), {})

backtrack_loop(a, c, var, tried) ==
    LET rest == order_values(var, a, c) \ tried
    IN  IF rest = {} THEN [found |-> FALSE, assignment |-> a]
        ELSE LET val == Min(rest)
                 res == IF is_consistent(c, var, val, a)
                        THEN backtrack(DictSet(a, var, val), c)
                        ELSE [found |-> FALSE, assignment |-> a]
             IN  IF res.found /\ Keys(res.assignment) # {} THEN res
                 ELSE backtrack_loop(a, c, var, tried \cup {val})

----------------------------------------------------------------------------
(* Frames of backtrack(assignment, csp) *)

(* entry is the content of the assignment when the invocation was entered. *)
NewFrame ==
    [pc |-> "enter", var |-> NoneVar, tried |-> {}, inferences |-> NoInference,
     entry |-> EmptyDict]

(* The second invocation before it exists.  alias says whether its          *)
(* assignment is the same dict object as the running invocation's.         *)
NoOther ==
    [pc |-> "absent", assignment |-> EmptyDict, stack |-> <<>>, result |-> "pending",
     raised |-> "", alias |-> FALSE]

Top == stack[Len(stack)]

Pop == SubSeq(stack, 1, Len(stack) - 1)

SetTop(f) == [stack EXCEPT ![Len(stack)] = f]

Running == pc = "searching" /\ stack # <<>>

InLoop == Running /\ Top.pc = "loop"

Candidates == Iterate(order_values(Top.var, assignment, csp), Top.tried)

----------------------------------------------------------------------------
(* Driver cell *)

(* csp = NQueensCSP(num_queens) *)
Construct ==
    /\ pc = "start"
    /\ csp' = NQueensCSP(n)
    /\ pc' = "constructed"
    /\ UNCHANGED <<n, assignment, stack, result, raised, ordering, hook, probe, history, other>>

(* backtrack handed the dict of the call before instead of a new {}        *)
(* (`def backtracking_search(csp, assignment={})`).                        *)
backtracking_search_reusesDict ==
    /\ pc = "constructed"
    /\ stack' = <<[pc |-> "enter", var |-> NoneVar, tried |-> {}, inferences |-> NoInference,
                   entry |-> assignment]>>
    /\ result' = "pending"
    /\ pc' = "searching"
    /\ UNCHANGED <<n, csp, assignment, raised, ordering, hook, probe, history, other>>

(* backtrack handed one dict object that every invocation uses, instead    *)
(* of a new {} per invocation.                                              *)
backtracking_search_sharedDict ==
    /\ pc = "constructed"
    /\ stack' = <<[pc |-> "enter", var |-> NoneVar, tried |-> {}, inferences |-> NoInference,
                   entry |-> assignment]>>
    /\ result' = "pending"
    /\ pc' = "searching"
    /\ other' = [other EXCEPT !.alias = TRUE]
    /\ UNCHANGED <<n, csp, assignment, raised, ordering, hook, probe, history>>

(* backtracking_search(csp): return backtrack({}, csp) *)
backtracking_search ==
    /\ pc = "constructed"
    /\ assignment' = EmptyDict
    /\ stack' = <<NewFrame>>
    /\ result' = "pending"
    /\ pc' = "searching"
    /\ other' = [other EXCEPT !.alias = FALSE]
    /\ UNCHANGED <<n, csp, raised, ordering, hook, probe, history>>

(* assn = backtracking_search(csp) has returned *)
Finish ==
    /\ pc = "searching"
    /\ stack = <<>>
    /\ result # "pending"
    /\ pc' = "done"
    /\ UNCHANGED <<n, csp, assignment, stack, result, raised, ordering, hook, probe, history, other>>

(* Control passes from the running invocation of backtracking_search to   *)
(* the second one on the same csp (which starts at its call if it has not  *)
(* been made yet): position, frames, returned value and the reference to   *)
(* the invocation's assignment dict are exchanged.  When both invocations  *)
(* refer to one dict object there is only that dict to read.               *)
Switch ==
    /\ pc \in {"constructed", "searching", "done", "raised"}
    /\ pc' = IF other.pc = "absent" THEN "constructed" ELSE other.pc
    /\ stack' = other.stack
    /\ result' = other.result
    /\ raised' = other.raised
    /\ assignment' = IF other.alias THEN assignment ELSE other.assignment
    /\ other' = [pc |-> pc, assignment |-> assignment, stack |-> stack, result |-> result,
                 raised |-> raised, alias |-> other.alias]
    /\ UNCHANGED <<n, csp, ordering, hook, probe, history>>

(* The driver cell is run a second time, from its first line: what the     *)
(* first run returned is kept aside, everything else is left as it is.     *)
Rerun ==
    /\ pc = "done"
    /\ history = <<>>
    /\ history' = <<[result |-> result, assignment |-> assignment]>>
    /\ pc' = "start"
    /\ UNCHANGED <<n, csp, assignment, stack, result, raised, ordering, hook, probe, other>>

----------------------------------------------------------------------------
(* backtrack *)

(* if csp.is_complete(assignment): return assignment *)
Complete ==
    /\ Running
    /\ Top.pc = "enter"
    /\ is_complete(csp, assignment)
    /\ result' = "assignment"
    /\ stack' = Pop
    /\ UNCHANGED <<n, pc, csp, assignment, raised, ordering, hook, probe, history, other>>

(* var = select(csp, assignment); the for loop is set up.  With var None   *)
(* the lookup csp.domains[var] raises KeyError.                            *)
Select ==
    /\ Running
    /\ Top.pc = "enter"
    /\ ~is_complete(csp, assignment)
    /\ LET var == select(csp, assignment)
       IN  IF var = NoneVar
           THEN /\ raised' = "KeyError"
                /\ pc' = "raised"
                /\ stack' = <<>>
           ELSE /\ stack' = SetTop([Top EXCEPT !.pc = "loop", !.var = var])
                /\ UNCHANGED <<pc, raised>>
    /\ UNCHANGED <<n, csp, assignment, result, ordering, hook, probe, history, other>>

(* A skipped val is also discarded from the domain set, the one object    *)
(* that every variable's domain refers to.                                 *)
Skip_prunesDomain ==
    /\ pc = "searching" /\ stack # <<>>
    /\ stack[Len(stack)].pc = "loop"
    /\ \E val \in Iterate(csp.domains[stack[Len(stack)].var], stack[Len(stack)].tried) :
        /\ ~is_consistent(csp, stack[Len(stack)].var, val, assignment)
        /\ stack' = [stack EXCEPT ![Len(stack)].tried = @ \cup {val}]
        /\ csp' = [csp EXCEPT !.domains = [v \in DOMAIN @ |-> @[v] \ {val}]]
    /\ UNCHANGED <<n, pc, assignment, result, raised, ordering, hook, probe, history, other>>

(* The next val is not consistent: the loop body is skipped. *)
Skip ==
    /\ InLoop
    /\ \E val \in Candidates :
        /\ ~is_consistent(csp, Top.var, val, assignment)
        /\ stack' = SetTop([Top EXCEPT !.tried = @ \cup {val}])
    /\ UNCHANGED <<n, pc, csp, assignment, result, raised, ordering, hook, probe, history, other>>

(* The loop body without `assignment[var] = val`: the recursive call is   *)
(* made on the assignment as it was.                                       *)
Bind_withoutAssign ==
    /\ pc = "searching" /\ stack # <<>>
    /\ stack[Len(stack)].pc = "loop"
    /\ \E val \in Iterate(csp.domains[stack[Len(stack)].var], stack[Len(stack)].tried) :
        /\ is_consistent(csp, stack[Len(stack)].var, val, assignment)
        /\ stack' = Append([stack EXCEPT ![Len(stack)] =
                               [@ EXCEPT !.pc = "wait", !.tried = @ \cup {val}]],
                           [pc |-> "enter", var |-> NoneVar, tried |-> {},
                            inferences |-> NoInference, entry |-> assignment])
    /\ UNCHANGED <<n, pc, csp, assignment, result, raised, ordering, hook, probe, history, other>>

(* The loop body without the is_consistent test. *)
Bind_unchecked ==
    /\ pc = "searching" /\ stack # <<>>
    /\ stack[Len(stack)].pc = "loop"
    /\ \E val \in Iterate(csp.domains[stack[Len(stack)].var], stack[Len(stack)].tried) :
        \E inferences \in inference(csp, stack[Len(stack)].var, val) :
            /\ ~inferences.isNone
            /\ assignment' = DictUpdate(DictSet(assignment, stack[Len(stack)].var, val),
                                        inferences.binds)
            /\ stack' = Append([stack EXCEPT ![Len(stack)] =
                                   [@ EXCEPT !.pc = "wait", !.tried = @ \cup {val},
                                             !.inferences = inferences]],
                               [pc |-> "enter", var |-> NoneVar, tried |-> {},
                                inferences |-> NoInference, entry |-> assignment'])
    /\ UNCHANGED <<n, pc, csp, result, raised, ordering, hook, probe, history, other>>

(* The next val is consistent and inference does not return None:          *)
(* assignment[var] = val; assignment.update(inferences); backtrack(...)    *)
Bind ==
    /\ InLoop
    /\ \E val \in Candidates :
        /\ is_consistent(csp, Top.var, val, assignment)
        /\ \E inferences \in inference(csp, Top.var, val) :
            /\ ~inferences.isNone
            /\ assignment' = DictUpdate(DictSet(assignment, Top.var, val), inferences.binds)
            /\ stack' = Append(SetTop([Top EXCEPT !.pc = "wait", !.tried = @ \cup {val},
                                                  !.inferences = inferences]),
                               [NewFrame EXCEPT !.entry = assignment'])
    /\ UNCHANGED <<n, pc, csp, result, raised, ordering, hook, probe, history, other>>

(* The next val is consistent and inference returns None: the recursive    *)
(* call is not made, del assignment[var] runs, and inferences.keys() is    *)
(* evaluated on None, which raises AttributeError out of every frame.      *)
InferenceFails ==
    /\ InLoop
    /\ \E val \in Candidates :
        /\ is_consistent(csp, Top.var, val, assignment)
        /\ \E inferences \in inference(csp, Top.var, val) :
            /\ inferences.isNone
            /\ assignment' = DictDel(DictSet(assignment, Top.var, val), Top.var)
            /\ raised' = "AttributeError"
            /\ pc' = "raised"
            /\ stack' = <<>>
    /\ UNCHANGED <<n, csp, result, ordering, hook, probe, history, other>>

(* The for loop is exhausted: return None *)
Exhaust ==
    /\ InLoop
    /\ Candidates = {}
    /\ result' = "None"
    /\ stack' = Pop
    /\ UNCHANGED <<n, pc, csp, assignment, raised, ordering, hook, probe, history, other>>

(* The recursive call returned a true result: return result *)
Propagate ==
    /\ Running
    /\ Top.pc = "wait"
    /\ result # "pending"
    /\ ResultTruthy(result, assignment)
    /\ stack' = Pop
    /\ UNCHANGED <<n, pc, csp, assignment, result, raised, ordering, hook, probe, history, other>>

(* Undo after which the for loop starts over from the first value. *)
Undo_restartsLoop ==
    /\ pc = "searching" /\ stack # <<>>
    /\ stack[Len(stack)].pc = "wait"
    /\ result # "pending"
    /\ ~ResultTruthy(result, assignment)
    /\ assignment' = DictDel(assignment, stack[Len(stack)].var)
    /\ stack' = [stack EXCEPT ![Len(stack)].pc = "loop", ![Len(stack)].tried = {}]
    /\ result' = "pending"
    /\ UNCHANGED <<n, pc, csp, raised, ordering, hook, probe, history, other>>

(* Undo without `del assignment[var]`. *)
Undo_keepsBinding ==
    /\ pc = "searching" /\ stack # <<>>
    /\ stack[Len(stack)].pc = "wait"
    /\ result # "pending"
    /\ ~ResultTruthy(result, assignment)
    /\ stack' = [stack EXCEPT ![Len(stack)].pc = "loop"]
    /\ result' = "pending"
    /\ UNCHANGED <<n, pc, csp, assignment, raised, ordering, hook, probe, history, other>>

(* Undo without the loop that deletes the inferred variables. *)
Undo_keepsInferred ==
    /\ pc = "searching" /\ stack # <<>>
    /\ stack[Len(stack)].pc = "wait"
    /\ result # "pending"
    /\ ~ResultTruthy(result, assignment)
    /\ assignment' = DictDel(assignment, stack[Len(stack)].var)
    /\ stack' = [stack EXCEPT ![Len(stack)].pc = "loop"]
    /\ result' = "pending"
    /\ UNCHANGED <<n, pc, csp, raised, ordering, hook, probe, history, other>>

(* The recursive call returned a false result: del assignment[var], then   *)
(* del assignment[inferenced_var] for each key of inferences (at most one  *)
(* key here).  del of a missing key raises KeyError.                       *)
Undo ==
    /\ Running
    /\ Top.pc = "wait"
    /\ result # "pending"
    /\ ~ResultTruthy(result, assignment)
    /\ LET a1 == DictDel(assignment, Top.var)
           ks == Keys(Top.inferences.binds)
       IN  IF Top.var \notin Keys(assignment)
           THEN /\ raised' = "KeyError"
                /\ pc' = "raised"
                /\ stack' = <<>>
                /\ UNCHANGED assignment
           ELSE IF ~(ks \subseteq Keys(a1))
           THEN /\ raised' = "KeyError"
                /\ pc' = "raised"
                /\ stack' = <<>>
                /\ assignment' = a1
           ELSE /\ assignment' = [x \in Keys(a1) \ ks |-> a1[x]]
                /\ stack' = SetTop([Top EXCEPT !.pc = "loop"])
                /\ UNCHANGED <<pc, raised>>
    /\ result' = "pending"
    /\ UNCHANGED <<n, csp, ordering, hook, probe, history, other>>

----------------------------------------------------------------------------
(* Direct application of is_consistent to drawn arguments *)

NoProbe == [var |-> NoneVar, value |-> NoneVar, assignment |-> EmptyDict, result |-> "unset"]

(* Every dict from a subset of the columns to rows. *)
Dicts(N) == UNION {[D -> 0 .. N - 1] : D \in SUBSET (0 .. N - 1)}

Probe ==
    /\ pc = "probe"
    /\ probe' = [probe EXCEPT !.result =
            IF is_consistent(csp, probe.var, probe.value, probe.assignment)
            THEN "True" ELSE "False"]
    /\ pc' = "probed"
    /\ UNCHANGED <<n, csp, assignment, stack, result, raised, ordering, hook, history, other>>

----------------------------------------------------------------------------
(* The test cell: a constraint instance over two of the symbols x0..x2,    *)
(* then .subs(bindings) with numbers for both, one or none of them.        *)

TestInstances ==
    UNION {{diffRow_constraint(p[1], p[2])} \cup
           {[name |-> "diffDiag", args |-> <<Sym(p[1]), Sym(p[2]), Num(d)>>] : d \in 1 .. MaxOffset} :
           p \in Pairs(TestSymbols)}

TestBindings(c) ==
    UNION {[D -> 0 .. MaxRow] : D \in SUBSET {c.args[1][2], c.args[2][2]}}

TestSubs ==
    /\ pc = "test"
    /\ probe' = [probe EXCEPT !.result = Evaluate(subs(probe.constraint, probe.bindings))]
    /\ pc' = "tested"
    /\ UNCHANGED <<n, csp, assignment, stack, result, raised, ordering, hook, history, other>>

----------------------------------------------------------------------------
(* Specifications *)

InitCommon ==
    /\ pc = "start"
    /\ csp = NQueensCSP(0)
    /\ assignment = EmptyDict
    /\ stack = <<>>
    /\ result = "pending"
    /\ raised = ""
    /\ probe = NoProbe
    /\ history = <<>>
    /\ other = NoOther

(* The notebook as written: natural iteration order, baseline inference. *)
Init ==
    /\ n \in (0 .. MaxN) \cup {num_queens}
    /\ ordering = "natural"
    /\ hook = "baseline"
    /\ InitCommon

Next ==
    \/ Construct
    \/ backtracking_search
    \/ Complete
    \/ Select
    \/ Skip
    \/ Bind
    \/ Exhaust
    \/ Propagate
    \/ Undo
    \/ Finish

Spec == Init /\ [][Next]_vars

(* Two invocations of backtracking_search on one csp, their steps          *)
(* interleaved in any order.                                                *)
InitTwo ==
    /\ n \in 1 .. MaxNTwo
    /\ ordering = "natural"
    /\ hook = "baseline"
    /\ InitCommon

NextTwo ==
    \/ Next
    \/ Switch

SpecTwo == InitTwo /\ [][NextTwo]_vars

(* One thread runs the cell: a statement that can run does run. *)
SpecFair == Init /\ [][Next]_vars /\ WF_vars(Next)

(* The driver cell run twice, each run constructing its own CSP. *)
NextTwice ==
    \/ Next
    \/ Rerun

SpecTwice == Init /\ [][NextTwice]_vars

(* order_values yields the domain in an arbitrary order. *)
InitPerm ==
    /\ n \in 1 .. MaxNPerm
    /\ ordering = "permuted"
    /\ hook = "baseline"
    /\ InitCommon

SpecPerm == InitPerm /\ [][Next]_vars

(* csp.inference is overridden. *)
InitHook ==
    /\ n \in 1 .. MaxNHook
    /\ ordering = "natural"
    /\ hook = "override"
    /\ InitCommon

NextHook ==
    \/ Next
    \/ InferenceFails

SpecHook == InitHook /\ [][NextHook]_vars

(* csp.inference derives forced bindings of unbound variables. *)
InitForce ==
    /\ n \in 1 .. MaxNForce
    /\ ordering = "natural"
    /\ hook = "forcing"
    /\ InitCommon

SpecForce == InitForce /\ [][Next]_vars

(* inference overridden by one that proposes variables already bound. *)
InitRebind ==
    /\ n \in 1 .. MaxNRebind
    /\ ordering = "natural"
    /\ hook = "rebinding"
    /\ InitCommon

SpecRebind == InitRebind /\ [][Next]_vars

(* is_consistent applied to every variable, value and assignment. *)
InitProbe ==
    /\ n \in 1 .. MaxNProbe
    /\ pc = "probe"
    /\ csp = NQueensCSP(n)
    /\ assignment = EmptyDict
    /\ stack = <<>>
    /\ result = "pending"
    /\ raised = ""
    /\ ordering = "natural"
    /\ hook = "baseline"
    /\ history = <<>>
    /\ other = NoOther
    /\ \E var \in 0 .. n - 1, value \in 0 .. n - 1, a \in Dicts(n) :
        probe = [var |-> var, value |-> value, assignment |-> a, result |-> "unset"]

NextProbe == Probe

(* The test cell's substitutions on every instance and every binding. *)
InitTest ==
    /\ n = 0
    /\ pc = "test"
    /\ csp = NQueensCSP(0)
    /\ assignment = EmptyDict
    /\ stack = <<>>
    /\ result = "pending"
    /\ raised = ""
    /\ ordering = "natural"
    /\ hook = "baseline"
    /\ history = <<>>
    /\ other = NoOther
    /\ \E c \in TestInstances : \E b \in TestBindings(c) :
        probe = [constraint |-> c, bindings |-> b, result |-> "unset"]

NextTest == TestSubs

SpecTest == InitTest /\ [][NextTest]_vars

SpecProbe == InitProbe /\ [][NextProbe]_vars

----------------------------------------------------------------------------
(* Reference predicates of the N-Queens problem *)

Abs(x) == IF x < 0 THEN -x ELSE x

(* Columns i and j with rows ri and rj attack each other. *)
Attack(i, ri, j, rj) == ri = rj \/ Abs(ri - rj) = Abs(i - j)

(* a binds every column exactly once to a row of the board, and no two     *)
(* queens share a row or a diagonal.                                       *)
ValidPlacement(a, N) ==
    /\ Keys(a) = 0 .. N - 1
    /\ \A i \in Keys(a) : a[i] \in 0 .. N - 1
    /\ \A i, j \in Keys(a) : i # j => ~Attack(i, a[i], j, a[j])

(* All attack-free placements of the first k columns, column i at index    *)
(* i + 1, built column by column.                                          *)
RECURSIVE Placements(_, _)

Placements(N, k) ==
    IF k = 0 THEN {<<>>}
    ELSE {Append(q[1], q[2]) :
            q \in {p \in Placements(N, k - 1) \X (0 .. N - 1) :
                    \A i \in 1 .. k - 1 : ~Attack(i - 1, p[1][i], k - 1, p[2])}}

Solvable(N) == Placements(N, N) # {}

Returned == pc = "done" /\ result = "assignment"

Failed == pc = "done" /\ result = "None"

----------------------------------------------------------------------------
(* Claims *)

(* C1: for N >= 1, an assignment returned by backtracking_search binds     *)
(* each of the N variables to a row in 0..N-1 with no two queens on one    *)
(* row or one diagonal; nothing incomplete or inconsistent is returned.    *)
C1_Soundness == (Returned /\ n >= 1) => ValidPlacement(assignment, n)

C1_Witness == Returned /\ n = num_queens /\ ValidPlacement(assignment, n)

(* C2: for N >= 1 the search returns None exactly when no placement        *)
(* satisfies all row and diagonal constraints, an assignment whenever one  *)
(* exists (the driver's N = 8 included), and never ends in an exception.   *)
C2_Completeness ==
    /\ pc # "raised"
    /\ (pc = "done" /\ n >= 1) => (result = "None" <=> ~Solvable(n))
    /\ (pc = "done" /\ n = num_queens) => result = "assignment"

C2_Witness == Failed /\ n >= 1 /\ ~Solvable(n)

(* C3: when inference returns None the tentative binding is undone, the    *)
(* search goes on with the next candidate value, and it still ends in      *)
(* Solved or Exhausted: no exception ends it.                              *)
C3_InferenceFailureRecoverable == pc # "raised" /\ raised = ""

(* C4: is_consistent(var, value, assignment) is true exactly when every    *)
(* other variable bound in the assignment is on a different row and a      *)
(* different diagonal than var at value.                                   *)
C4_ConsistentIffReference ==
    pc = "probed" =>
        (probe.result = "True" <=>
            \A u \in Keys(probe.assignment) \ {probe.var} :
                /\ probe.value # probe.assignment[u]
                /\ Abs(probe.value - probe.assignment[u]) # Abs(probe.var - u))

C4_Witness ==
    /\ pc = "probed"
    /\ probe.result = "False"
    /\ probe.var \in Keys(probe.assignment)
    /\ Cardinality(Keys(probe.assignment)) < n

(* C5: is_consistent is false only when some other variable is bound and   *)
(* its row and var's value jointly violate a constraint; unbound variables *)
(* never make it false, so it is true on the empty assignment.             *)
C5_UnboundNeverInconsistent ==
    pc = "probed" =>
        /\ probe.result = "False" =>
              \E u \in Keys(probe.assignment) \ {probe.var} :
                  Attack(probe.var, probe.value, u, probe.assignment[u])
        /\ probe.assignment = EmptyDict => probe.result = "True"

C5_Witness ==
    /\ pc = "probed"
    /\ probe.result = "True"
    /\ n >= 2
    /\ Keys(probe.assignment) \ {probe.var} # (0 .. n - 1) \ {probe.var}

(* C6: for N = 2 and N = 3 the search returns None, and the root           *)
(* invocation returns it only after the loop over the first variable has   *)
(* drawn every row.                                                        *)
C6_NoSolutionFor2And3 ==
    n \in {2, 3} =>
        /\ result # "assignment"
        /\ pc = "done" => result = "None"
        /\ (Len(stack) = 1 /\ InLoop /\ Candidates = {}) =>
              (Top.var = 0 /\ Top.tried = 0 .. n - 1)

C6_Witness == Failed /\ n = 3

(* C7: for N = 1 the search returns the assignment {0: 0}. *)
C7_SingleQueen ==
    (pc = "done" /\ n = 1) => (result = "assignment" /\ assignment = (0 :> 0))

C7_Witness == Returned /\ n = 1

(* C8: for N = 4 the search returns an assignment of all four columns      *)
(* that satisfies every row and diagonal constraint.                       *)
C8_FourQueens ==
    (pc = "done" /\ n = 4) => (result = "assignment" /\ ValidPlacement(assignment, 4))

C8_Witness == Returned /\ n = 4 /\ Cardinality(Keys(assignment)) = 4

(* C9: a size N <= 0 is rejected when the CSP is constructed: no CSP       *)
(* object exists for it, no search starts and no result is produced.       *)
C9_NonPositiveSizeRejected == n <= 0 => pc \in {"start", "raised"}

(* C10: whatever order the domain values are drawn in, per variable and    *)
(* per invocation, the search returns an assignment exactly when it does   *)
(* in the baseline order, and any assignment returned is a valid           *)
(* placement.                                                              *)
C10_ValueOrderIndependence ==
    pc = "done" =>
        /\ (result = "assignment" <=> backtrack(EmptyDict, NQueensCSP(n)).found)
        /\ result = "assignment" => ValidPlacement(assignment, n)
        /\ result \in {"assignment", "None"}

C10_Witness ==
    /\ Returned
    /\ ordering = "permuted"
    /\ assignment # backtrack(EmptyDict, NQueensCSP(n)).assignment

(* A result is None or a valid placement. *)
OutcomeValid(res, a, N) == res = "None" \/ (res = "assignment" /\ ValidPlacement(a, N))

(* C11: the driver run twice for the same N, each run on a CSP it          *)
(* constructs itself: both outcomes are valid and of the same kind, and    *)
(* the second search starts from an empty assignment and a pending         *)
(* result, whatever the first run left.                                    *)
C11_Repeatability ==
    /\ pc = "done" => OutcomeValid(result, assignment, n)
    /\ (pc = "done" /\ history # <<>>) =>
          /\ OutcomeValid(history[1].result, history[1].assignment, n)
          /\ history[1].result = result
    /\ (history # <<>> /\ Running /\ Len(stack) = 1 /\ Top.pc = "enter") =>
          (assignment = EmptyDict /\ result = "pending")

C11_Witness ==
    /\ pc = "done"
    /\ history # <<>>
    /\ n = 4
    /\ history[1].result = "assignment"
    /\ result = "assignment"

(* The symbols of the tested instance and the numbers bound to them. *)
TestX0 == probe.constraint.args[1][2]

TestX1 == probe.constraint.args[2][2]

TestBound == Keys(probe.bindings) \cap {TestX0, TestX1}

(* C12: with both variables bound a different-row constraint is True when  *)
(* the values differ and False when they are equal; a different-diagonal   *)
(* constraint with offset d is False when the first value is the second    *)
(* plus d or minus d and True otherwise, equal values included; with       *)
(* exactly one variable bound neither is False.                            *)
C12_ConstraintsThreeValued ==
    pc = "tested" =>
        /\ (probe.constraint.name = "diffRow" /\ Cardinality(TestBound) = 2) =>
              probe.result = (IF probe.bindings[TestX0] # probe.bindings[TestX1]
                              THEN "True" ELSE "False")
        /\ (probe.constraint.name = "diffDiag" /\ Cardinality(TestBound) = 2) =>
              LET d == probe.constraint.args[3][2]
                  v0 == probe.bindings[TestX0]
                  v1 == probe.bindings[TestX1]
              IN  probe.result = (IF v0 = v1 + d \/ v0 = v1 - d THEN "False" ELSE "True")
        /\ Cardinality(TestBound) = 1 => probe.result # "False"

C12_Witness ==
    /\ pc = "tested"
    /\ probe.constraint.name = "diffDiag"
    /\ Cardinality(TestBound) = 2
    /\ probe.bindings[TestX0] = probe.bindings[TestX1]
    /\ probe.result = "True"

(* The constraints of the given name that reference exactly columns i, j. *)
ConstraintsOn(c, name, i, j) ==
    {k \in constraints(c) : k.name = name /\ free_symbols(k) = {i, j}}

(* C13: right after construction, for N >= 1 and every i < j there is      *)
(* exactly one diffRow and one diffDiag constraint on (i, j), the latter   *)
(* with offset j - i, both in the index entries of i and of j; the entry   *)
(* of v holds only constraints that reference v, 2(N-1) of them; the       *)
(* de-duplicated constraint set has N(N-1) constraints.                    *)
C13_ConstraintIndex ==
    (pc = "constructed" /\ n >= 1) =>
        /\ \A i, j \in 0 .. n - 1 : i < j =>
              /\ ConstraintsOn(csp, "diffRow", i, j) =
                    {[name |-> "diffRow", args |-> <<Sym(i), Sym(j)>>]}
              /\ ConstraintsOn(csp, "diffDiag", i, j) =
                    {[name |-> "diffDiag", args |-> <<Sym(i), Sym(j), Num(j - i)>>]}
              /\ ConstraintsOn(csp, "diffRow", i, j) \subseteq
                    (csp.constraints[i] \cap csp.constraints[j])
              /\ ConstraintsOn(csp, "diffDiag", i, j) \subseteq
                    (csp.constraints[i] \cap csp.constraints[j])
        /\ \A v \in 0 .. n - 1 :
              /\ \A k \in csp.constraints[v] : v \in free_symbols(k)
              /\ Cardinality(csp.constraints[v]) = 2 * (n - 1)
        /\ Cardinality(constraints(csp)) = n * (n - 1)

C13_Witness ==
    /\ pc = "constructed"
    /\ n = num_queens
    /\ Cardinality(constraints(csp)) = 56
    /\ Cardinality(csp.constraints[3]) = 14

(* C14: at the head of its loop, so before every candidate and when it     *)
(* returns None, an invocation finds the assignment exactly as it was on   *)
(* entry; once a call has returned None the assignment holds the caller's  *)
(* entry bindings plus the caller's tentative and inferred ones and        *)
(* nothing else; a failed root call leaves it empty.                       *)
C14_FullBacktrack ==
    /\ InLoop => assignment = Top.entry
    /\ (Running /\ Top.pc = "wait" /\ result = "None") =>
          /\ Keys(assignment) =
                Keys(Top.entry) \cup {Top.var} \cup Keys(Top.inferences.binds)
          /\ \A k \in Keys(Top.entry) : assignment[k] = Top.entry[k]
    /\ (stack = <<>> /\ result = "None") => assignment = EmptyDict

C14_Witness ==
    /\ InLoop
    /\ Top.inferences.binds # EmptyDict
    /\ Top.tried # {}
    /\ Len(stack) = 2
    /\ assignment = Top.entry

(* No two bound columns attack each other. *)
Consistent(a) == \A i, j \in Keys(a) : i # j => ~Attack(i, a[i], j, a[j])

(* C15: in every state of a search started by backtracking_search any two  *)
(* bound variables are on different rows and different diagonals; the      *)
(* value an invocation has bound passed is_consistent against the          *)
(* assignment the invocation was entered with, so no invocation is         *)
(* entered with an assignment that violates a constraint.                  *)
C15_AlwaysConsistent ==
    /\ Consistent(assignment)
    /\ \A k \in DOMAIN stack :
          /\ Consistent(stack[k].entry)
          /\ stack[k].pc = "wait" =>
                is_consistent(csp, stack[k].var, assignment[stack[k].var], stack[k].entry)

C15_Witness ==
    /\ Running
    /\ Top.pc = "enter"
    /\ n = num_queens
    /\ Cardinality(Keys(assignment)) = 5
    /\ Consistent(assignment)

(* C16: once an invocation has found the assignment complete and returned *)
(* it, every step is the return of that same assignment by the next        *)
(* enclosing invocation, and then by backtracking_search: the assignment   *)
(* is not changed, no value is checked or bound, nothing is undone.        *)
C16_FirstSolutionWins ==
    [][result = "assignment" =>
          /\ assignment' = assignment
          /\ result' = "assignment"
          /\ stack # <<>> => stack' = Pop
          /\ stack = <<>> => pc' = "done"]_vars

C16_Witness ==
    /\ result = "assignment"
    /\ pc = "searching"
    /\ n = num_queens
    /\ Len(stack) = 4
    /\ \A k \in DOMAIN stack : stack[k].pc = "wait"

(* The two terminal outcomes of a search. *)
Solved == pc = "done" /\ stack = <<>> /\ result = "assignment" /\ is_complete(csp, assignment)

Exhausted == pc = "done" /\ stack = <<>> /\ result = "None"

(* C17: for N >= 1 with the baseline inference, a search that has started  *)
(* eventually ends Solved or Exhausted and then stays there; no exception  *)
(* ends it on the way.                                                     *)
C17_Termination ==
    /\ [](n >= 1 => pc # "raised")
    /\ (pc = "searching" /\ n >= 1) ~> [](Solved \/ Exhausted)

C17_Witness == Exhausted /\ n = 3 /\ assignment = EmptyDict /\ raised = ""

(* C18: from construction on, through every state of the search and after *)
(* it has returned, no step changes the CSP object: the variable list is   *)
(* columns 0..N-1 in order, every variable's domain is the full set of     *)
(* rows 0..N-1, and the constraint index is the one construction built.    *)
C18_ModelReadOnly ==
    /\ [](pc # "start" =>
            /\ csp.size = n
            /\ csp.variables = [k \in 1 .. n |-> k - 1]
            /\ csp.domains = [v \in 0 .. n - 1 |-> 0 .. n - 1]
            /\ DOMAIN csp.constraints = 0 .. n - 1)
    /\ [][pc # "start" => csp' = csp]_vars

C18_Witness ==
    /\ pc = "done"
    /\ result = "assignment"
    /\ n = 5
    /\ csp = NQueensCSP(5)
    /\ \A v \in 0 .. 4 : csp.domains[v] = 0 .. 4

(* The dict the suspended invocation refers to. *)
OtherDict == IF other.alias THEN assignment ELSE other.assignment

(* What an invocation with frames stk reads in its dict a is what its own  *)
(* steps wrote: every frame's entry content is still bound in a, and at    *)
(* the start of an invocation and at the head of its loop a is exactly the *)
(* entry content.                                                          *)
OwnView(stk, a) ==
    \A k \in DOMAIN stk :
        /\ \A x \in Keys(stk[k].entry) : x \in Keys(a) /\ a[x] = stk[k].entry[x]
        /\ (k = Len(stk) /\ stk[k].pc \in {"enter", "loop"}) => a = stk[k].entry

(* What the invocation returns when it runs alone. *)
Alone(position, res, a) ==
    position = "done" =>
        LET r == backtrack(EmptyDict, csp)
        IN  IF r.found THEN res = "assignment" /\ a = r.assignment
            ELSE res = "None" /\ a = EmptyDict

(* C19: two invocations of backtracking_search on the same csp, their      *)
(* steps interleaved in any order, each read in their dict only what their *)
(* own steps wrote, each return what a lone run returns, and no exception  *)
(* is raised in either.                                                    *)
C19_IndependentSearches ==
    /\ pc # "raised" /\ other.pc # "raised"
    /\ pc \in {"searching", "done"} => OwnView(stack, assignment)
    /\ other.pc \in {"searching", "done"} => OwnView(other.stack, OtherDict)
    /\ Alone(pc, result, assignment)
    /\ Alone(other.pc, other.result, OtherDict)

C19_Witness ==
    /\ pc = "done"
    /\ result = "assignment"
    /\ n = 4
    /\ other.pc = "searching"
    /\ other.result = "pending"
    /\ Len(other.stack) = 3
    /\ other.assignment # assignment

(* The first variable, in the order of the variable list, that a leaves    *)
(* unbound; None when there is none.                                       *)
FirstUnbound(a) ==
    IF \A v \in 0 .. n - 1 : v \in Keys(a) THEN NoneVar
    ELSE CHOOSE v \in 0 .. n - 1 :
            /\ v \notin Keys(a)
            /\ \A u \in 0 .. v - 1 : u \in Keys(a)

(* C20: in every state of a baseline search the bound columns are a prefix *)
(* 0..k-1 of the variable list, the variable an invocation works on is the *)
(* first one unbound when it was entered, and for N >= 1 select does not   *)
(* return None where backtrack calls it.                                   *)
C20_SelectFirstUnbound ==
    /\ Keys(assignment) = 0 .. Cardinality(Keys(assignment)) - 1
    /\ \A k \in DOMAIN stack :
          /\ Keys(stack[k].entry) = 0 .. k - 2
          /\ stack[k].pc # "enter" =>
                /\ stack[k].var = FirstUnbound(stack[k].entry)
                /\ stack[k].var = k - 1
    /\ (Running /\ Top.pc = "enter") =>
          select(csp, assignment) = FirstUnbound(assignment)
    /\ (Running /\ Top.pc = "enter" /\ n >= 1 /\ ~is_complete(csp, assignment)) =>
          select(csp, assignment) # NoneVar
    /\ n >= 1 => raised # "KeyError"

C20_Witness ==
    /\ InLoop
    /\ n = num_queens
    /\ Top.var = 6
    /\ Keys(assignment) = 0 .. 5
    /\ Top.tried # {}

(* C21: with the baseline inference the invocation at recursion depth d    *)
(* (the root is depth 0) was entered with exactly d variables bound, and   *)
(* the depth is at most N.                                                 *)
C21_DepthBounded ==
    /\ Len(stack) <= n + 1
    /\ \A k \in DOMAIN stack : Cardinality(Keys(stack[k].entry)) = k - 1
    /\ (Running /\ Top.pc = "enter") => Cardinality(Keys(assignment)) = Len(stack) - 1

C21_Witness ==
    /\ Running
    /\ Top.pc = "enter"
    /\ n = num_queens
    /\ Len(stack) = n + 1
    /\ Cardinality(Keys(Top.entry)) = n

(* C22: is_complete is true exactly when the assignment has N bindings,    *)
(* and where backtrack calls it during a search that is the same as: every *)
(* column 0..N-1 is bound to one row of the board and no two columns share *)
(* a row or a diagonal.                                                    *)
C22_CompleteIffSolved ==
    (Running /\ Top.pc = "enter") =>
        /\ is_complete(csp, assignment) <=> Cardinality(DOMAIN assignment) = n
        /\ is_complete(csp, assignment) <=>
              /\ DOMAIN assignment = 0 .. n - 1
              /\ \A v \in 0 .. n - 1 : assignment[v] \in 0 .. n - 1
              /\ \A i, j \in 0 .. n - 1 :
                    i < j => ~Attack(i, assignment[i], j, assignment[j])

C22_Witness ==
    /\ Running
    /\ Top.pc = "enter"
    /\ n = 5
    /\ is_complete(csp, assignment)
    /\ ValidPlacement(assignment, n)

(* C23: an inference result that binds a variable already bound (var      *)
(* itself or an earlier one) is rejected when it is returned, so no        *)
(* invocation waits on a recursive call made with such a result; no        *)
(* binding an invocation found on entry is overwritten or removed while    *)
(* the invocation is active.                                               *)
C23_ReboundRejected ==
    \A k \in DOMAIN stack :
        /\ stack[k].pc = "wait" =>
              Keys(stack[k].inferences.binds) \cap
                  (Keys(stack[k].entry) \cup {stack[k].var}) = {}
        /\ \A x \in Keys(stack[k].entry) :
              x \in Keys(assignment) /\ assignment[x] = stack[k].entry[x]

(* p comes before q in lexicographic order (sequences of equal length). *)
LexLess(p, q) ==
    \E k \in DOMAIN p :
        /\ p[k] < q[k]
        /\ \A m \in 1 .. k - 1 : p[m] = q[m]

(* The rows of columns 0..N-1 as a sequence. *)
Rows(a, N) == [k \in 1 .. N |-> a[k - 1]]

(* C24: for a solvable N >= 1 the assignment returned by the baseline      *)
(* search, read as the rows of columns 0..N-1, is the lexicographically    *)
(* smallest of all valid placements; for N = 4 it is rows 1, 3, 0, 2.      *)
C24_LexSmallest ==
    /\ (Returned /\ n >= 1) =>
          /\ ValidPlacement(assignment, n)
          /\ \A q \in Placements(n, n) :
                q = Rows(assignment, n) \/ LexLess(Rows(assignment, n), q)
    /\ (pc = "done" /\ n = 4) => Rows(assignment, 4) = <<1, 3, 0, 2>>

C24_Witness ==
    /\ Returned
    /\ n = num_queens
    /\ Rows(assignment, n) = <<0, 4, 7, 5, 2, 6, 1, 3>>
    /\ Cardinality(Placements(n, n)) = 92

(* C25: for N >= 1, whenever an invocation tests the value its recursive   *)
(* call returned, an assignment returned as success is not empty, so the   *)
(* test `if result` is true exactly when the value is not None.            *)
C25_TruthinessIsNotNone ==
    (Running /\ Top.pc = "wait" /\ result # "pending" /\ n >= 1) =>
        /\ result = "assignment" => (Keys(assignment) # {} /\ is_complete(csp, assignment))
        /\ ResultTruthy(result, assignment) <=> result # "None"

C25_Witness ==
    /\ Running
    /\ Top.pc = "wait"
    /\ result = "assignment"
    /\ n = 1
    /\ Len(stack) = 1
    /\ ResultTruthy(result, assignment)

====
